---- MODULE Spec2Model ----
(***************************************************************************)
(* Model of src/bin/convert_yad2k.py: the Darknet -> Keras converter.      *)
(*                                                                         *)
(* Text is modelled as sequences of one-character strings, the weight file *)
(* as a length `flen` with a read cursor `pos`, a Keras tensor as the      *)
(* index of the node that produced it (0 is the Input tensor, None the     *)
(* Python None).                                                           *)
(***************************************************************************)
EXTENDS Integers, Sequences, FiniteSets, TLC

(***************************************************************************)
(* Bounds of the model.                                                    *)
(***************************************************************************)
\* every sequence of at most MaxSections section headers is a config
MaxSections == 2
\* every sequence of at most MaxLines short lines is a config of SpecUniq
MaxLines == 3

(***************************************************************************)
(* Python string and list operations used by the source.                   *)
(***************************************************************************)
\* Python None (a placeholder entry of all_layers)
None == -1

\* the Input tensor (lines 143, 146)
InputLayer == 0

Whitespace == {" ", "\n", "\t"}

Brackets == {"[", "]"}

\* str.startswith
StartsWith(s, p) == Len(s) >= Len(p) /\ SubSeq(s, 1, Len(p)) = p

RECURSIVE LStrip(_, _)
LStrip(s, chars) ==
  IF s # <<>> /\ Head(s) \in chars THEN LStrip(Tail(s), chars) ELSE s

RECURSIVE RStrip(_, _)
RStrip(s, chars) ==
  IF s # <<>> /\ s[Len(s)] \in chars
    THEN RStrip(SubSeq(s, 1, Len(s) - 1), chars) ELSE s

\* str.strip(chars): drops the leading and trailing characters in chars
Strip(s, chars) == RStrip(LStrip(s, chars), chars)

Digit(d) == CASE d = 0 -> "0" [] d = 1 -> "1" [] d = 2 -> "2" [] d = 3 -> "3"
              [] d = 4 -> "4" [] d = 5 -> "5" [] d = 6 -> "6" [] d = 7 -> "7"
              [] d = 8 -> "8" [] d = 9 -> "9"

\* str(n) for n >= 0: the decimal digits
RECURSIVE PyStr(_)
PyStr(n) == IF n < 10 THEN <<Digit(n)>>
            ELSE PyStr(n \div 10) \o <<Digit(n % 10)>>

\* str.replace(old, new): every non-overlapping occurrence, left to right;
\* with an empty old, new is inserted before every character and at the end
RECURSIVE Replace(_, _, _)
Replace(s, old, new) ==
  IF old = <<>>
    THEN IF s = <<>> THEN new
         ELSE new \o <<Head(s)>> \o Replace(Tail(s), old, new)
    ELSE IF Len(s) < Len(old) THEN s
         ELSE IF StartsWith(s, old)
           THEN new \o Replace(SubSeq(s, Len(old) + 1, Len(s)), old, new)
           ELSE <<Head(s)>> \o Replace(Tail(s), old, new)

\* list[i] with Python's negative indices; the index is valid iff InRange
InRange(list, i) == -Len(list) <= i /\ i < Len(list)

PyIndex(list, i) == IF i >= 0 THEN list[i + 1] ELSE list[Len(list) + i + 1]

\* major * 10 + minor on numpy int32 scalars: the product and the sum wrap
\* to 32 bits. Computed on 16-bit halves, every intermediate value is small.
VersionNumber(ma, mi) ==
  LET half == 65536
      lo10 == (ma % half) * 10
      hi10 == ((((ma \div half) % half) * 10) + (lo10 \div half)) % half
      lo == (lo10 % half) + (mi % half)
      hi == (hi10 + ((mi \div half) % half) + (lo \div half)) % half
  IN  IF hi >= 32768 THEN ((hi - half) * half) + (lo % half)
      ELSE (hi * half) + (lo % half)

(***************************************************************************)
(* Section names.                                                          *)
(***************************************************************************)
net == <<"n", "e", "t">>
convolutional ==
  <<"c", "o", "n", "v", "o", "l", "u", "t", "i", "o", "n", "a", "l">>
maxpool == <<"m", "a", "x", "p", "o", "o", "l">>
avgpool == <<"a", "v", "g", "p", "o", "o", "l">>
route == <<"r", "o", "u", "t", "e">>
reorg == <<"r", "e", "o", "r", "g">>
shortcut == <<"s", "h", "o", "r", "t", "c", "u", "t">>
upsample == <<"u", "p", "s", "a", "m", "p", "l", "e">>
yolo == <<"y", "o", "l", "o">>
region == <<"r", "e", "g", "i", "o", "n">>
cost == <<"c", "o", "s", "t">>
softmax == <<"s", "o", "f", "t", "m", "a", "x">>
\* two section names Darknet configs use that the converter has no branch for
dropout == <<"d", "r", "o", "p", "o", "u", "t">>
network == <<"n", "e", "t", "w", "o", "r", "k">>

net_0 == net \o <<"_", "0">>


\* a section header line of the config file: [name] and a newline
HeaderLine(name) == <<"[">> \o name \o <<"]", "\n">>

BaseNames == {net, convolutional, maxpool, avgpool, route, reorg, shortcut,
              upsample, yolo, region, cost, softmax, dropout, network}

SeqsUpTo(S, n) == UNION {[1..k -> S] : k \in 0..n}

(***************************************************************************)
(* The inputs: the config file (its header lines; the key = value lines of *)
(* a section are drawn when the loop reads them through cfg_parser), the   *)
(* weight file (its length and the version fields of its header) and the   *)
(* command line (yolo_version ends with v2 or not).                        *)
(***************************************************************************)
\* configs longer than MaxSections: Darknet-shaped networks
Scenarios ==
  { <<HeaderLine(net), HeaderLine(convolutional), HeaderLine(avgpool)>>,
    <<HeaderLine(convolutional), HeaderLine(convolutional),
      HeaderLine(route)>>,
    <<HeaderLine(convolutional), HeaderLine(yolo), HeaderLine(route),
      HeaderLine(maxpool), HeaderLine(yolo)>>,
    <<HeaderLine(convolutional), HeaderLine(maxpool), HeaderLine(shortcut),
      HeaderLine(yolo)>>,
    <<HeaderLine(convolutional), HeaderLine(reorg), HeaderLine(convolutional),
      HeaderLine(region)>> }

Configs == SeqsUpTo({HeaderLine(n) : n \in BaseNames}, MaxSections)
             \cup Scenarios

\* weight-file lengths in bytes: shorter than a header, a header and part of
\* a layer, exactly a header and a layer, a few bytes more, and two layers
FileLens == {8, 18, 24, 36, 44, 46, 48, 240, 244, 400}

\* <<yolo_version ends with v2, major, minor>>
Formats == {<<TRUE, 0, 1>>, <<FALSE, 0, 1>>, <<FALSE, 2, 0>>}

\* the (major, minor) pairs of SpecHeader: old and new layouts, the edges of
\* the three comparisons, and a major whose product by 10 leaves 32 bits
HeaderVersions == {<<0, 1>>, <<0, 2>>, <<2, 0>>, <<1000, 0>>, <<999, 999>>,
                   <<0, 1000>>, <<-1, 5>>, <<-429496729, 0>>}

HeaderFileLens == {0, 8, 12, 14, 16, 18, 20, 24}

\* the lines of SpecUniq: headers whose names contain one another, a header
\* followed by a blank, two key = value lines, a comment and an empty line
ShortLines ==
  { HeaderLine(<<"a">>), HeaderLine(<<"a", "a">>),
    HeaderLine(<<"a", "_", "0">>),
    <<"[", "b", "]", " ", "\n">>,
    <<"a", "=", "a", "\n">>,
    <<"b", " ", "=", "a", "\n">>,
    <<"#", "a", "\n">>,
    <<"\n">> }

VARIABLES
  pc,               \* the statement _main is at
  err,              \* the exception that ended _main, or "none"
  yolo_v2,          \* yolo_version.endswith('v2')
  flen,             \* the length of the weight file in bytes
  pos,              \* the cursor of weights_file
  weights_open,     \* weights_file is open
  major, minor,     \* the first two int32 fields of the weight file
  header_bytes,     \* the bytes read from weights_file by lines 113-125
  lines,            \* the lines of the config file
  fin,              \* the number of lines unique_config_sections has read
  section_counters, \* section_counters of unique_config_sections
  output_stream,    \* output_stream of unique_config_sections
  sections,         \* cfg_parser.sections()
  sec,              \* the number of sections the loop has taken
  cur,              \* the local variables the current section has set
  cfg_parser,       \* the key = value lines of the sections the loop took
  start_pos,        \* the cursor when the loop took the current section
  prev_layer, all_layers, out_index, count,
  nodes,            \* the Keras layers created, in creation order
  yolo_tails,       \* prev_layer at each out_index.append of line 307
  anchors_file,     \* the content of <output_root>_anchors.txt
  model_outputs,    \* the outputs of the Model of lines 325-329
  remaining_weights,\* line 339, in bytes (the code's value times 4)
  warned            \* line 344 has printed the warning

vars == <<pc, err, yolo_v2, flen, pos, weights_open, major, minor,
          header_bytes, lines, fin, section_counters, output_stream,
          sections, sec,
          cfg_parser, cur, start_pos, prev_layer, all_layers, out_index,
          count, nodes, yolo_tails, anchors_file, model_outputs,
          remaining_weights, warned>>

file_vars == <<flen, pos, weights_open, major, minor, header_bytes>>
uniq_vars == <<lines, fin, section_counters, output_stream>>
graph_vars == <<prev_layer, all_layers, out_index, nodes, yolo_tails>>
end_vars == <<model_outputs, remaining_weights, warned>>

NoCur == [kind |-> "none"]

\* the state at line 112, before weights_file is opened and read
InitWith(configs, formats, lens) ==
  /\ pc = "header"
  /\ err = "none"
  /\ \E f \in formats : yolo_v2 = f[1] /\ major = f[2] /\ minor = f[3]
  /\ flen \in lens
  /\ pos = 0
  /\ weights_open = FALSE
  /\ header_bytes = 0
  /\ lines \in configs
  /\ fin = 0
  /\ section_counters = <<>>
  /\ output_stream = <<>>
  /\ sections = <<>>
  /\ sec = 0
  /\ cur = NoCur
  /\ cfg_parser = <<>>
  /\ start_pos = 0
  /\ prev_layer = None
  /\ all_layers = <<>>
  /\ out_index = <<>>
  /\ count = 0
  /\ nodes = <<>>
  /\ yolo_tails = <<>>
  /\ anchors_file = "absent"
  /\ model_outputs = <<>>
  /\ remaining_weights = 0
  /\ warned = FALSE

Init == InitWith(Configs, Formats, FileLens)

(***************************************************************************)
(* The weight stream.                                                      *)
(***************************************************************************)
\* weights_file.read(n) returns the n next bytes, or those left if fewer
Available(n) == IF flen - pos >= n THEN n ELSE flen - pos

\* a read that goes on with the bytes it got
ReadArrayMut(n, next) ==
  /\ pos' = pos + Available(n)
  /\ pc' = next /\ err' = err

\* np.ndarray(shape, dtype, buffer=weights_file.read(n)): the cursor moves by
\* the bytes returned; a buffer shorter than n raises TypeError
ReadArray(n, next) ==
  /\ pos' = pos + Available(n)
  /\ IF Available(n) < n
       THEN pc' = "error" /\ err' = "TypeError: buffer is too small"
       ELSE pc' = next /\ err' = err

\* the test with > for >=
SeenIsInt64Mut(ma, mi) ==
  VersionNumber(ma, mi) > 2 /\ ma < 1000 /\ mi < 1000

\* line 120: the test on int32 scalars
SeenIsInt64(ma, mi) ==
  VersionNumber(ma, mi) >= 2 /\ ma < 1000 /\ mi < 1000

\* lines 112-115: open, and the 16-byte header of the v2 format
ReadHeaderV2 ==
  /\ pc = "header" /\ yolo_v2
  /\ weights_open' = TRUE
  /\ ReadArray(16, "uniq")
  /\ header_bytes' = Available(16)
  /\ UNCHANGED <<yolo_v2, flen, major, minor, uniq_vars, sections, sec,
                 cfg_parser, cur,
                 start_pos, graph_vars, count, anchors_file, end_vars>>

\* lines 112, 118-119: open, and major, minor, revision
ReadVersion ==
  /\ pc = "header" /\ ~yolo_v2
  /\ weights_open' = TRUE
  /\ ReadArray(12, "seen")
  /\ header_bytes' = Available(12)
  /\ UNCHANGED <<yolo_v2, flen, major, minor, uniq_vars, sections, sec,
                 cfg_parser, cur,
                 start_pos, graph_vars, count, anchors_file, end_vars>>

\* lines 120-125: seen, as int64 or int32
ReadSeen ==
  /\ pc = "seen"
  /\ LET n == IF SeenIsInt64(major, minor) THEN 8 ELSE 4
     IN  /\ ReadArray(n, "uniq")
         /\ header_bytes' = header_bytes + Available(n)
  /\ UNCHANGED <<yolo_v2, flen, weights_open, major, minor, uniq_vars,
                 sections, sec, cfg_parser, cur, start_pos, graph_vars, count,
                 anchors_file, end_vars>>

(***************************************************************************)
(* unique_config_sections and configparser.                                *)
(***************************************************************************)
\* a counter that is incremented before it is used
CounterMut(counters, section) ==
  IF section \in DOMAIN counters THEN counters[section] + 1 ELSE 1

\* section_counters[section] of a defaultdict(int)
Counter(counters, section) ==
  IF section \in DOMAIN counters THEN counters[section] ELSE 0

\* every line taken for a header
UniqueLineMut(line, counters) ==
  LET section == Strip(Strip(line, Whitespace), Brackets)
      _section == section \o <<"_">> \o PyStr(Counter(counters, section))
  IN  Replace(line, section, _section)

\* lines 55-59: the line written for a line of the config file
UniqueLine(line, counters) ==
  IF StartsWith(line, <<"[">>)
    THEN LET section == Strip(Strip(line, Whitespace), Brackets)
             _section == section \o <<"_">> \o PyStr(Counter(counters, section))
         IN  Replace(line, section, _section)
    ELSE line

\* line 58: section_counters after a line
CountLine(line, counters) ==
  IF StartsWith(line, <<"[">>)
    THEN LET section == Strip(Strip(line, Whitespace), Brackets)
         IN  [s \in DOMAIN counters \cup {section} |->
                IF s = section THEN Counter(counters, section) + 1
                ELSE counters[s]]
    ELSE counters

\* lines 54-60: one turn of the loop over the lines of the file
UniqueStep ==
  /\ pc = "uniq" /\ fin < Len(lines)
  /\ fin' = fin + 1
  /\ output_stream' =
       Append(output_stream, UniqueLine(lines[fin + 1], section_counters))
  /\ section_counters' = CountLine(lines[fin + 1], section_counters)
  /\ UNCHANGED <<pc, err, yolo_v2, file_vars, lines, sections, sec,
                 cfg_parser, cur,
                 start_pos, graph_vars, count, anchors_file, end_vars>>

\* configparser's SECTCRE, \[(?P<header>.+)\], matched against the stripped
\* line: the text between the first character and the last ]
LastBracket(value) ==
  LET ps == {p \in 3..Len(value) : value[p] = "]"}
  IN  IF ps = {} THEN 0 ELSE CHOOSE p \in ps : \A q \in ps : q <= p

IsHeader(value) == StartsWith(value, <<"[">>) /\ LastBracket(value) > 0

HeaderName(value) == SubSeq(value, 2, LastBracket(value) - 1)

\* configparser's comment prefixes and delimiters
Comments == {"#", ";"}

Delimiters == {"=", ":"}

FirstDelimiter(value) ==
  LET ps == {p \in 1..Len(value) : value[p] \in Delimiters}
  IN  IF ps = {} THEN 0 ELSE CHOOSE p \in ps : \A q \in ps : p <= q

\* configparser's OPTCRE: the key before the first delimiter and the value
\* after it, both stripped
Option(value) ==
  <<RStrip(SubSeq(value, 1, FirstDelimiter(value) - 1), Whitespace),
    Strip(SubSeq(value, FirstDelimiter(value) + 1, Len(value)), Whitespace)>>

\* what read_file returns or raises: the names of the sections read and,
\* for each, its (key, value) pairs in file order
Parsed(error, parsed) ==
  [error |-> error,
   sections |-> [k \in 1..Len(parsed) |-> parsed[k].name],
   items |-> [k \in 1..Len(parsed) |-> parsed[k].items]]

\* ConfigParser.read_file on lines without indentation: blank and comment
\* lines are passed over, a header opens a section, any other line is an
\* option of the open section; a line with no delimiter is reported once
\* the whole file is read
RECURSIVE ReadFile(_, _)
ReadFile(text, parsed) ==
  IF text = <<>> THEN Parsed("none", parsed)
  ELSE LET value == Strip(Head(text), Whitespace)
           last == Len(parsed)
       IN  IF value = <<>> \/ Head(value) \in Comments
             THEN ReadFile(Tail(text), parsed)
           ELSE IF IsHeader(value)
             THEN IF \E k \in 1..last : parsed[k].name = HeaderName(value)
                    THEN Parsed("DuplicateSectionError", parsed)
                    ELSE ReadFile(Tail(text),
                                  Append(parsed, [name |-> HeaderName(value),
                                                  items |-> <<>>]))
           ELSE IF parsed = <<>>
             THEN Parsed("MissingSectionHeaderError", parsed)
           ELSE IF FirstDelimiter(value) = 0
             THEN LET rest == ReadFile(Tail(text), parsed)
                  IN  IF rest.error = "none"
                        THEN Parsed("ParsingError", parsed) ELSE rest
           ELSE IF \E j \in 1..Len(parsed[last].items) :
                     parsed[last].items[j][1] = Option(value)[1]
             THEN Parsed("DuplicateOptionError", parsed)
           ELSE ReadFile(Tail(text),
                         [parsed EXCEPT ![last].items = Append(@, Option(value))])

\* lines 61-62, 131-132: the stream is returned and parsed
ParseConfig ==
  /\ pc = "uniq" /\ fin = Len(lines)
  /\ LET r == ReadFile(output_stream, <<>>)
     IN  /\ sections' = r.sections
         /\ IF r.error = "none"
              THEN pc' = "setup" /\ err' = err
              ELSE pc' = "error" /\ err' = r.error
  /\ UNCHANGED <<yolo_v2, file_vars, uniq_vars, sec, cfg_parser, cur, start_pos,
                 graph_vars, count, anchors_file, end_vars>>

(***************************************************************************)
(* The graph builder. A node keeps what the converter gives the Keras      *)
(* layer, the tensors it is called on, and of its output shape the channel *)
(* count and the rank, which decide the bytes a later section reads and    *)
(* whether a later layer accepts the tensor. Heights and widths are not    *)
(* modelled: they are None in the multi-output format (line 146).          *)
(***************************************************************************)
\* K.int_shape(layer)[-1]
Channels(layer) == IF layer = InputLayer THEN 3 ELSE nodes[layer].ch

\* len(K.int_shape(layer))
Ndim(layer) == IF layer = InputLayer THEN 4 ELSE nodes[layer].nd

\* a Keras layer with input_spec ndim=4 accepts the tensor
Is4D(layer) == layer # None /\ Ndim(layer) = 4

\* lines 135-153: the input layer and the empty lists; without
\* --fully_convolutional the image size is read from section net_0
Setup ==
  /\ pc = "setup"
  /\ \E fully_convolutional \in BOOLEAN :
       IF ~fully_convolutional /\ ~(\E i \in 1..Len(sections) : sections[i] = net_0)
         THEN /\ pc' = "error" /\ err' = "KeyError: net_0"
              /\ UNCHANGED <<prev_layer, all_layers>>
         ELSE /\ pc' = "loop" /\ err' = err
              /\ prev_layer' = InputLayer
              /\ all_layers' = IF yolo_v2 THEN <<InputLayer>> ELSE <<>>
  /\ out_index' = <<>>
  /\ count' = 0
  /\ UNCHANGED <<yolo_v2, file_vars, uniq_vars, sections, sec,
                 cfg_parser, cur, start_pos,
                 nodes, yolo_tails, anchors_file, end_vars>>

\* lines 156-321: the branch of the if/elif chain a section name takes
Kind(section) ==
  IF StartsWith(section, convolutional) THEN "convolutional"
  ELSE IF StartsWith(section, maxpool) THEN "maxpool"
  ELSE IF StartsWith(section, avgpool) THEN "avgpool"
  ELSE IF StartsWith(section, route) THEN "route"
  ELSE IF StartsWith(section, reorg) THEN "reorg"
  ELSE IF StartsWith(section, shortcut) THEN "shortcut"
  ELSE IF StartsWith(section, upsample) THEN "upsample"
  ELSE IF StartsWith(section, yolo) THEN "yolo"
  ELSE IF StartsWith(section, region) THEN "region"
  ELSE IF \/ StartsWith(section, net)
          \/ StartsWith(section, cost)
          \/ StartsWith(section, softmax) THEN "skip"
  ELSE "unsupported"

\* line 154: the loop takes the next section, which is of kind k
Take(k) ==
  /\ pc = "loop" /\ sec < Len(sections)
  /\ Kind(sections[sec + 1]) = k
  /\ sec' = sec + 1
  /\ start_pos' = pos

\* an exception leaves the loop
Raise(e) == pc' = "error" /\ err' = e

\* the key = value lines of the convolutional sections
ConvParams ==
  { [filters |-> 2, size |-> 3, stride |-> 1, pad |-> 1,
     activation |-> "linear", batch_normalize |-> FALSE],
    [filters |-> 1, size |-> 1, stride |-> 2, pad |-> 1,
     activation |-> "leaky", batch_normalize |-> TRUE],
    [filters |-> 2, size |-> 1, stride |-> 2, pad |-> 0,
     activation |-> "linear", batch_normalize |-> TRUE],
    [filters |-> 1, size |-> 1, stride |-> 1, pad |-> 0,
     activation |-> "sigmoid", batch_normalize |-> FALSE] }

\* the stride left out of the test
PaddingMut(v2, pad, stride) == IF pad = 1 THEN "same" ELSE "valid"

\* lines 164-168
Padding(v2, pad, stride) ==
  IF v2 THEN (IF pad = 1 THEN "same" ELSE "valid")
  ELSE (IF pad = 1 /\ stride = 1 THEN "same" ELSE "valid")

\* one kernel dimension left out of the product
WeightsSizeMut(size, in_channels, filters) == size * in_channels * filters

\* lines 176-178: np.product(weights_shape)
WeightsSize(size, in_channels, filters) == size * size * in_channels * filters

\* lines 156-181: the section's keys are read and the shapes computed
ConvBegin ==
  /\ Take("convolutional")
  /\ \E p \in ConvParams :
       /\ cfg_parser' = Append(cfg_parser, p)
       /\ IF prev_layer = None
            THEN /\ Raise("AttributeError: int_shape of None")
                 /\ cur' = [kind |-> "convolutional", filters |-> p.filters,
                            size |-> p.size, stride |-> p.stride, pad |-> p.pad,
                            activation |-> p.activation,
                            batch_normalize |-> p.batch_normalize,
                            padding |-> Padding(yolo_v2, p.pad, p.stride)]
            ELSE /\ pc' = "conv_bias" /\ err' = err
                 /\ cur' = [kind |-> "convolutional", filters |-> p.filters,
                            size |-> p.size, stride |-> p.stride, pad |-> p.pad,
                            activation |-> p.activation,
                            batch_normalize |-> p.batch_normalize,
                            padding |-> Padding(yolo_v2, p.pad, p.stride),
                            in_channels |-> Channels(prev_layer),
                            weights_size |->
                              WeightsSize(p.size, Channels(prev_layer), p.filters)]
  /\ UNCHANGED <<yolo_v2, file_vars, uniq_vars, sections, graph_vars, count,
                 anchors_file, end_vars>>

\* the bytes of the three reads of a convolutional section
BiasBytes(filters) == filters * 4

\* two vectors for three
BnBytesMut(filters) == filters * 8

BnBytes(filters) == filters * 12

\* scalars for bytes
KernelBytesMut(weights_size) == weights_size

KernelBytes(weights_size) == weights_size * 4

\* lines 183-187: conv_bias
ConvBias ==
  /\ pc = "conv_bias"
  /\ ReadArray(BiasBytes(cur.filters),
               IF cur.batch_normalize THEN "conv_bn" ELSE "conv_kernel")
  /\ IF Available(BiasBytes(cur.filters)) < BiasBytes(cur.filters)
       THEN UNCHANGED <<count, cur>>
       ELSE /\ count' = count + cur.filters
            /\ cur' = [f \in DOMAIN cur \cup {"bias_at"} |->
                         IF f = "bias_at" THEN pos ELSE cur[f]]
  /\ UNCHANGED <<yolo_v2, flen, weights_open, major, minor, header_bytes,
                 uniq_vars, sections, sec, cfg_parser, start_pos, graph_vars,
                 anchors_file, end_vars>>

\* lines 189-203: bn_weights
ConvBn ==
  /\ pc = "conv_bn"
  /\ ReadArray(BnBytes(cur.filters), "conv_kernel")
  /\ IF Available(BnBytes(cur.filters)) < BnBytes(cur.filters)
       THEN UNCHANGED <<count, cur>>
       ELSE /\ count' = count + 3 * cur.filters
            /\ cur' = [f \in DOMAIN cur \cup {"bn_at"} |->
                         IF f = "bn_at" THEN pos ELSE cur[f]]
  /\ UNCHANGED <<yolo_v2, flen, weights_open, major, minor, header_bytes,
                 uniq_vars, sections, sec, cfg_parser, start_pos, graph_vars,
                 anchors_file, end_vars>>

\* lines 205-219: conv_weights
ConvKernel ==
  /\ pc = "conv_kernel"
  /\ ReadArray(KernelBytes(cur.weights_size), "conv_act")
  /\ IF Available(KernelBytes(cur.weights_size)) < KernelBytes(cur.weights_size)
       THEN UNCHANGED <<count, cur>>
       ELSE /\ count' = count + cur.weights_size
            /\ cur' = [f \in DOMAIN cur \cup {"kernel_at"} |->
                         IF f = "kernel_at" THEN pos ELSE cur[f]]
  /\ UNCHANGED <<yolo_v2, flen, weights_open, major, minor, header_bytes,
                 uniq_vars, sections, sec, cfg_parser, start_pos, graph_vars,
                 anchors_file, end_vars>>

\* an activation check that lets every name through
ConvActivationMut ==
  /\ pc = "conv_act"
  /\ pc' = "conv_build" /\ err' = err
  /\ UNCHANGED <<yolo_v2, file_vars, uniq_vars, sections, sec,
                 cfg_parser, cur, start_pos,
                 graph_vars, count, anchors_file, end_vars>>

\* lines 221-228: the activation is checked, after the reads
ConvActivation ==
  /\ pc = "conv_act"
  /\ IF cur.activation # "leaky" /\ cur.activation # "linear"
       THEN Raise("ValueError: Unknown activation function")
       ELSE pc' = "conv_build" /\ err' = err
  /\ UNCHANGED <<yolo_v2, file_vars, uniq_vars, sections, sec,
                 cfg_parser, cur, start_pos,
                 graph_vars, count, anchors_file, end_vars>>

(***************************************************************************)
(* numpy arrays over the bytes of the weight file. An array is a view: the *)
(* place in the file of its first element, its shape and its strides in    *)
(* bytes; the scalars are float32, 4 bytes each.                           *)
(***************************************************************************)
RECURSIVE Product(_)
Product(shape) ==
  IF shape = <<>> THEN 1 ELSE Head(shape) * Product(Tail(shape))

\* the strides of a C-ordered array: the last axis varies fastest
RECURSIVE CStrides(_)
CStrides(shape) ==
  IF shape = <<>> THEN <<>>
  ELSE <<4 * Product(Tail(shape))>> \o CStrides(Tail(shape))

\* np.ndarray(shape, dtype='float32', buffer=weights_file.read(...)), the
\* bytes having been read at cursor `at`
NdArray(shape, at) == [at |-> at, shape |-> shape, strides |-> CStrides(shape)]

\* a[k] of an array of two axes or more
Row(a, k) ==
  [at |-> a.at + k * a.strides[1], shape |-> Tail(a.shape),
   strides |-> Tail(a.strides)]

\* the place in the file of the element a[idx], idx counted from 0
RECURSIVE Item(_, _)
Item(a, idx) ==
  IF idx = <<>> THEN a.at
  ELSE Item([at |-> a.at + Head(idx) * a.strides[1],
             shape |-> Tail(a.shape), strides |-> Tail(a.strides)],
            Tail(idx))

\* the permutation applied the other way: axis axes[k] of the result is
\* axis k of a
TransposeMut(a, axes) ==
  LET from(m) == CHOOSE k \in 1..Len(axes) : axes[k] + 1 = m
  IN  [at |-> a.at,
       shape |-> [m \in 1..Len(axes) |-> a.shape[from(m)]],
       strides |-> [m \in 1..Len(axes) |-> a.strides[from(m)]]]

\* np.transpose(a, axes): axis k of the result is axis axes[k] of a
Transpose(a, axes) ==
  [at |-> a.at,
   shape |-> [k \in 1..Len(axes) |-> a.shape[axes[k] + 1]],
   strides |-> [k \in 1..Len(axes) |-> a.strides[axes[k] + 1]]]

\* lines 183-186: conv_bias
ConvBiasArray(c) == NdArray(<<c.filters>>, c.bias_at)

\* lines 190-193: bn_weights
BnWeights(c) == NdArray(<<3, c.filters>>, c.bn_at)

\* the bias given as the scale, the scale as the shift
BnWeightListMut(c) ==
  <<ConvBiasArray(c), Row(BnWeights(c), 0), Row(BnWeights(c), 1),
    Row(BnWeights(c), 2)>>

\* lines 198-203: bn_weight_list
BnWeightList(c) ==
  <<Row(BnWeights(c), 0), ConvBiasArray(c), Row(BnWeights(c), 1),
    Row(BnWeights(c), 2)>>

\* line 177: darknet_w_shape
DarknetWShape(c) == <<c.filters, c.in_channels, c.size, c.size>>

\* lines 205-219: conv_weights, read in Darknet's order and transposed
ConvWeights(c) ==
  LET conv_weights ==
        Transpose(NdArray(DarknetWShape(c), c.kernel_at), <<2, 3, 1, 0>>)
  IN  IF c.batch_normalize THEN <<conv_weights>>
      ELSE <<conv_weights, ConvBiasArray(c)>>

\* line 232
ZeroPaddingNode(prev) ==
  [op |-> "ZeroPadding2D", inputs |-> <<prev>>, ch |-> Channels(prev),
   nd |-> 4, padding |-> <<<<1, 0>>, <<1, 0>>>>]

\* lines 234-241
Conv2DNode(c, input) ==
  [op |-> "Conv2D", inputs |-> <<input>>, ch |-> c.filters, nd |-> 4,
   filters |-> c.filters, size |-> c.size, stride |-> c.stride,
   padding |-> c.padding, use_bias |-> ~c.batch_normalize,
   weights |-> ConvWeights(c)]

\* lines 244-245
BatchNormalizationNode(c, input) ==
  [op |-> "BatchNormalization", inputs |-> <<input>>, ch |-> c.filters,
   nd |-> 4, weights |-> BnWeightList(c)]

\* line 251
LeakyReLUNode(c, input) ==
  [op |-> "LeakyReLU", inputs |-> <<input>>, ch |-> c.filters, nd |-> 4,
   alpha |-> "0.1"]

\* the normalization placed after the activation
ConvNodesMut(prev, c) ==
  LET n0 == Len(nodes)
      padn == IF c.stride > 1 THEN <<ZeroPaddingNode(prev)>> ELSE <<>>
      conv_in == IF c.stride > 1 THEN n0 + 1 ELSE prev
      convn == <<Conv2DNode(c, conv_in)>>
      conv_id == n0 + Len(padn) + 1
      actn == IF c.activation = "leaky"
                THEN <<LeakyReLUNode(c, conv_id)>> ELSE <<>>
      act_id == conv_id + Len(actn)
      bnn == IF c.batch_normalize
               THEN <<BatchNormalizationNode(c, act_id)>> ELSE <<>>
  IN  padn \o convn \o actn \o bnn

\* lines 230-253: the nodes of a convolutional section, chained after prev
ConvNodes(prev, c) ==
  LET n0 == Len(nodes)
      padn == IF c.stride > 1 THEN <<ZeroPaddingNode(prev)>> ELSE <<>>
      conv_in == IF c.stride > 1 THEN n0 + 1 ELSE prev
      convn == <<Conv2DNode(c, conv_in)>>
      conv_id == n0 + Len(padn) + 1
      bnn == IF c.batch_normalize
               THEN <<BatchNormalizationNode(c, conv_id)>> ELSE <<>>
      bn_id == conv_id + Len(bnn)
      actn == IF c.activation = "leaky"
                THEN <<LeakyReLUNode(c, bn_id)>> ELSE <<>>
  IN  padn \o convn \o bnn \o actn

ConvBuild ==
  /\ pc = "conv_build"
  /\ IF ~Is4D(prev_layer)
       THEN /\ Raise("ValueError: input is incompatible with layer")
            /\ UNCHANGED graph_vars
       ELSE /\ pc' = "loop" /\ err' = err
            /\ nodes' = nodes \o ConvNodes(prev_layer, cur)
            /\ prev_layer' = Len(nodes')
            /\ all_layers' = Append(all_layers, Len(nodes'))
            /\ UNCHANGED <<out_index, yolo_tails>>
  /\ UNCHANGED <<yolo_v2, file_vars, uniq_vars, sections, sec,
                 cfg_parser, cur, start_pos, count, anchors_file, end_vars>>

\* the key = value lines of the other sections
MaxPoolParams == {[size |-> 2, stride |-> 2], [size |-> 2, stride |-> 1]}

RouteLayers == {<<-1>>, <<-2>>, <<0>>, <<-1, -2>>, <<-2, -1>>, <<-1, 0>>}

Strides == {2, 3}

ShortcutParams == {[from |-> -2, activation |-> "linear"],
                   [from |-> -3, activation |-> "linear"],
                   [from |-> -2, activation |-> "leaky"]}

Anchors == {"10,13", "116,90"}

\* the new layer stored over the last entry of the list
AppendNodeMut(node) ==
  /\ nodes' = Append(nodes, node)
  /\ all_layers' =
       IF all_layers = <<>> THEN <<Len(nodes) + 1>>
       ELSE [all_layers EXCEPT ![Len(all_layers)] = Len(nodes) + 1]
  /\ prev_layer' = Len(nodes) + 1
  /\ UNCHANGED <<out_index, yolo_tails>>

\* a layer called on prev_layer: one new node, the new tail, appended
AppendNode(node) ==
  /\ nodes' = Append(nodes, node)
  /\ all_layers' = Append(all_layers, Len(nodes) + 1)
  /\ prev_layer' = Len(nodes) + 1
  /\ UNCHANGED <<out_index, yolo_tails>>

\* lines 255-260
MaxPool ==
  /\ Take("maxpool")
  /\ \E p \in MaxPoolParams :
       /\ cur' = [kind |-> "maxpool", size |-> p.size, stride |-> p.stride]
       /\ cfg_parser' = Append(cfg_parser, cur')
       /\ IF ~Is4D(prev_layer)
            THEN /\ Raise("ValueError: input is incompatible with layer")
                 /\ UNCHANGED graph_vars
            ELSE /\ pc' = "loop" /\ err' = err
                 /\ AppendNode([op |-> "MaxPooling2D",
                                inputs |-> <<prev_layer>>,
                                ch |-> Channels(prev_layer), nd |-> 4,
                                padding |-> "same", size |-> p.size,
                                stride |-> p.stride])
  /\ UNCHANGED <<yolo_v2, file_vars, uniq_vars, sections, count, anchors_file,
                 end_vars>>

\* lines 262-266
AvgPool ==
  /\ Take("avgpool")
  /\ \E has_items \in BOOLEAN :
       /\ cur' = [kind |-> "avgpool", has_items |-> has_items]
       /\ cfg_parser' = Append(cfg_parser, cur')
       /\ IF has_items
            THEN /\ Raise("ValueError: avgpool with params unsupported")
                 /\ UNCHANGED graph_vars
            ELSE IF ~Is4D(prev_layer)
              THEN /\ Raise("ValueError: input is incompatible with layer")
                   /\ UNCHANGED graph_vars
              ELSE /\ pc' = "loop" /\ err' = err
                   /\ AppendNode([op |-> "GlobalAveragePooling2D",
                                  inputs |-> <<prev_layer>>,
                                  ch |-> Channels(prev_layer), nd |-> 2])
  /\ UNCHANGED <<yolo_v2, file_vars, uniq_vars, sections, count, anchors_file,
                 end_vars>>

\* the referenced layers in reverse order
LayersMut(ids) ==
  [j \in 1..Len(ids) |-> PyIndex(all_layers, ids[Len(ids) + 1 - j])]

\* line 270: [all_layers[i] for i in ids]
Layers(ids) == [j \in 1..Len(ids) |-> PyIndex(all_layers, ids[j])]

RECURSIVE SumChannels(_)
SumChannels(layers) ==
  IF layers = <<>> THEN 0
  ELSE Channels(Head(layers)) + SumChannels(Tail(layers))

\* concatenate(layers) accepts tensors of one rank
CanConcatenate(layers) ==
  /\ \A j \in 1..Len(layers) : layers[j] # None
  /\ \A j \in 1..Len(layers) : Ndim(layers[j]) = Ndim(layers[1])

\* lines 268-279
Route ==
  /\ Take("route")
  /\ \E ids \in RouteLayers :
       /\ cur' = [kind |-> "route", ids |-> ids]
       /\ cfg_parser' = Append(cfg_parser, cur')
       /\ IF \E j \in 1..Len(ids) : ~InRange(all_layers, ids[j])
            THEN /\ Raise("IndexError: list index out of range")
                 /\ UNCHANGED graph_vars
            ELSE IF Len(Layers(ids)) > 1
              THEN IF ~CanConcatenate(Layers(ids))
                     THEN /\ Raise("ValueError: concatenate")
                          /\ UNCHANGED graph_vars
                     ELSE /\ pc' = "loop" /\ err' = err
                          /\ AppendNode([op |-> "Concatenate",
                                         inputs |-> Layers(ids),
                                         ch |-> SumChannels(Layers(ids)),
                                         nd |-> Ndim(Layers(ids)[1])])
              ELSE /\ pc' = "loop" /\ err' = err
                   /\ all_layers' = Append(all_layers, Layers(ids)[1])
                   /\ prev_layer' = Layers(ids)[1]
                   /\ UNCHANGED <<out_index, nodes, yolo_tails>>
  /\ UNCHANGED <<yolo_v2, file_vars, uniq_vars, sections, count, anchors_file,
                 end_vars>>

\* space_to_depth_x2_output_shape: four times the channels
SpaceToDepthChannels(ch) == 4 * ch

\* lines 281-289
Reorg ==
  /\ Take("reorg")
  /\ \E block_size \in Strides :
       /\ cur' = [kind |-> "reorg", block_size |-> block_size]
       /\ cfg_parser' = Append(cfg_parser, cur')
       /\ IF block_size # 2
            THEN /\ Raise("AssertionError: Only reorg with stride 2 supported.")
                 /\ UNCHANGED graph_vars
            ELSE IF ~Is4D(prev_layer)
              THEN /\ Raise("ValueError: input is incompatible with layer")
                   /\ UNCHANGED graph_vars
              ELSE /\ pc' = "loop" /\ err' = err
                   /\ AppendNode([op |-> "space_to_depth_x2",
                                  inputs |-> <<prev_layer>>,
                                  ch |-> SpaceToDepthChannels(Channels(prev_layer)),
                                  nd |-> 4])
  /\ UNCHANGED <<yolo_v2, file_vars, uniq_vars, sections, count, anchors_file,
                 end_vars>>

\* Add()([a, b]) accepts two tensors of one shape
CanAdd(a, b) ==
  /\ a # None /\ b # None
  /\ Ndim(a) = Ndim(b) /\ Channels(a) = Channels(b)

\* the Add node created before the activation is asserted
ShortcutMut ==
  /\ Take("shortcut")
  /\ \E p \in ShortcutParams :
       /\ cur' = [kind |-> "shortcut", index |-> p.from,
                  activation |-> p.activation]
       /\ cfg_parser' = Append(cfg_parser, cur')
       /\ IF ~InRange(all_layers, p.from)
            THEN /\ Raise("IndexError: list index out of range")
                 /\ UNCHANGED graph_vars
            ELSE IF ~CanAdd(PyIndex(all_layers, p.from), prev_layer)
              THEN /\ Raise("ValueError: Add")
                   /\ UNCHANGED graph_vars
              ELSE /\ AppendNode([op |-> "Add",
                                  inputs |-> <<PyIndex(all_layers, p.from),
                                               prev_layer>>,
                                  ch |-> Channels(prev_layer),
                                  nd |-> Ndim(prev_layer)])
                   /\ IF p.activation # "linear"
                        THEN Raise("AssertionError: Only linear activation supported.")
                        ELSE pc' = "loop" /\ err' = err
  /\ UNCHANGED <<yolo_v2, file_vars, uniq_vars, sections, count, anchors_file,
                 end_vars>>

\* lines 291-296
Shortcut ==
  /\ Take("shortcut")
  /\ \E p \in ShortcutParams :
       /\ cur' = [kind |-> "shortcut", index |-> p.from,
                  activation |-> p.activation]
       /\ cfg_parser' = Append(cfg_parser, cur')
       /\ IF p.activation # "linear"
            THEN /\ Raise("AssertionError: Only linear activation supported.")
                 /\ UNCHANGED graph_vars
            ELSE IF ~InRange(all_layers, p.from)
              THEN /\ Raise("IndexError: list index out of range")
                   /\ UNCHANGED graph_vars
              ELSE IF ~CanAdd(PyIndex(all_layers, p.from), prev_layer)
                THEN /\ Raise("ValueError: Add")
                     /\ UNCHANGED graph_vars
                ELSE /\ pc' = "loop" /\ err' = err
                     /\ AppendNode([op |-> "Add",
                                    inputs |-> <<PyIndex(all_layers, p.from),
                                                 prev_layer>>,
                                    ch |-> Channels(prev_layer),
                                    nd |-> Ndim(prev_layer)])
  /\ UNCHANGED <<yolo_v2, file_vars, uniq_vars, sections, count, anchors_file,
                 end_vars>>

\* lines 298-302
Upsample ==
  /\ Take("upsample")
  /\ \E stride \in Strides :
       /\ cur' = [kind |-> "upsample", stride |-> stride]
       /\ cfg_parser' = Append(cfg_parser, cur')
       /\ IF stride # 2
            THEN /\ Raise("AssertionError: Only stride=2 supported.")
                 /\ UNCHANGED graph_vars
            ELSE IF ~Is4D(prev_layer)
              THEN /\ Raise("ValueError: input is incompatible with layer")
                   /\ UNCHANGED graph_vars
              ELSE /\ pc' = "loop" /\ err' = err
                   /\ AppendNode([op |-> "UpSampling2D",
                                  inputs |-> <<prev_layer>>,
                                  ch |-> Channels(prev_layer), nd |-> 4,
                                  size |-> stride])
  /\ UNCHANGED <<yolo_v2, file_vars, uniq_vars, sections, count, anchors_file,
                 end_vars>>

\* the length for the last index
LastIndexMut(list) == Len(list)

\* lines 307, 327: len(all_layers) - 1
LastIndex(list) == Len(list) - 1

\* lines 304-309: out_index is only defined by line 149, when not v2
Yolo ==
  /\ Take("yolo")
  /\ \E anchors \in Anchors :
       /\ cur' = [kind |-> "yolo", anchors |-> anchors]
       /\ cfg_parser' = Append(cfg_parser, cur')
       /\ anchors_file' = anchors
  /\ IF yolo_v2
       THEN /\ Raise("NameError: name 'out_index' is not defined")
            /\ UNCHANGED graph_vars
       ELSE /\ pc' = "loop" /\ err' = err
            /\ out_index' = Append(out_index, LastIndex(all_layers))
            /\ yolo_tails' = Append(yolo_tails, prev_layer)
            /\ all_layers' = Append(all_layers, None)
            /\ prev_layer' = None
            /\ UNCHANGED nodes
  /\ UNCHANGED <<yolo_v2, file_vars, uniq_vars, sections, count, end_vars>>

\* an anchors file that is there is kept
RegionMut ==
  /\ Take("region")
  /\ \E anchors \in Anchors :
       /\ cur' = [kind |-> "region", anchors |-> anchors]
       /\ cfg_parser' = Append(cfg_parser, cur')
       /\ anchors_file' =
            IF anchors_file = "absent" THEN anchors ELSE anchors_file
  /\ UNCHANGED <<pc, err, yolo_v2, file_vars, uniq_vars, sections, graph_vars,
                 count, end_vars>>

\* lines 311-313
Region ==
  /\ Take("region")
  /\ \E anchors \in Anchors :
       /\ cur' = [kind |-> "region", anchors |-> anchors]
       /\ cfg_parser' = Append(cfg_parser, cur')
       /\ anchors_file' = anchors
  /\ UNCHANGED <<pc, err, yolo_v2, file_vars, uniq_vars, sections, graph_vars,
                 count, end_vars>>

\* a skipped section that takes a scalar from the stream
SkipMut ==
  /\ Take("skip")
  /\ cur' = [kind |-> "skip"]
  /\ cfg_parser' = Append(cfg_parser, cur')
  /\ pos' = pos + Available(4)
  /\ count' = count + 1
  /\ UNCHANGED <<pc, err, yolo_v2, flen, weights_open, major, minor,
                 header_bytes, uniq_vars, sections, graph_vars,
                 anchors_file, end_vars>>

\* lines 315-317: net, cost, softmax
Skip ==
  /\ Take("skip")
  /\ cur' = [kind |-> "skip"]
  /\ cfg_parser' = Append(cfg_parser, cur')
  /\ UNCHANGED <<pc, err, yolo_v2, file_vars, uniq_vars, sections, graph_vars,
                 count, anchors_file, end_vars>>

\* lines 319-321
Unsupported ==
  /\ Take("unsupported")
  /\ cur' = [kind |-> "unsupported"]
  /\ cfg_parser' = Append(cfg_parser, cur')
  /\ Raise("ValueError: Unsupported section header type")
  /\ UNCHANGED <<yolo_v2, file_vars, uniq_vars, sections, graph_vars, count,
                 anchors_file, end_vars>>

\* line 327: out_index when Model is built
FinalOutIndex ==
  IF Len(out_index) = 0 THEN <<LastIndex(all_layers)>> ELSE out_index

\* one output only: the first index recorded
OutputsMut ==
  IF yolo_v2 THEN <<PyIndex(all_layers, -1)>>
  ELSE <<PyIndex(all_layers, FinalOutIndex[1])>>

\* lines 324-329: the outputs handed to Model
Outputs ==
  IF yolo_v2 THEN <<PyIndex(all_layers, -1)>>
  ELSE [j \in 1..Len(FinalOutIndex) |-> PyIndex(all_layers, FinalOutIndex[j])]

\* lines 323-337: the model is created and saved
CreateModel ==
  /\ pc = "loop" /\ sec = Len(sections)
  /\ IF yolo_v2
       THEN /\ pc' = "remaining" /\ err' = err
            /\ model_outputs' = Outputs
            /\ UNCHANGED out_index
       ELSE /\ out_index' = FinalOutIndex
            /\ IF \E j \in 1..Len(FinalOutIndex) :
                    ~InRange(all_layers, FinalOutIndex[j])
                 THEN /\ Raise("IndexError: list index out of range")
                      /\ UNCHANGED model_outputs
                 ELSE IF \E j \in 1..Len(Outputs) : Outputs[j] = None
                   THEN /\ Raise("ValueError: Output tensors to a Model must be Keras tensors")
                        /\ UNCHANGED model_outputs
                   ELSE /\ pc' = "remaining" /\ err' = err
                        /\ model_outputs' = Outputs
  /\ UNCHANGED <<yolo_v2, file_vars, uniq_vars, sections, sec,
                 cfg_parser, cur, start_pos,
                 prev_layer, all_layers, count, nodes, yolo_tails,
                 anchors_file, remaining_weights, warned>>

\* unread bytes taken for an error
CheckRemainingMut ==
  /\ pc = "remaining"
  /\ remaining_weights' = flen - pos
  /\ pos' = flen
  /\ weights_open' = FALSE
  /\ warned' = FALSE
  /\ IF flen - pos > 0
       THEN pc' = "error" /\ err' = "ValueError: unused weights"
       ELSE pc' = "done" /\ err' = err
  /\ UNCHANGED <<yolo_v2, flen, major, minor, header_bytes, uniq_vars,
                 sections, sec, cfg_parser, cur, start_pos, graph_vars, count,
                 anchors_file, model_outputs>>

\* lines 338-344: the rest of the file is read, the file closed, the
\* warning printed if anything was left
CheckRemaining ==
  /\ pc = "remaining"
  /\ remaining_weights' = flen - pos
  /\ pos' = flen
  /\ weights_open' = FALSE
  /\ warned' = (flen - pos > 0)
  /\ pc' = "done"
  /\ UNCHANGED <<err, yolo_v2, flen, major, minor, header_bytes, uniq_vars,
                 sections, sec, cfg_parser, cur, start_pos, graph_vars, count,
                 anchors_file, model_outputs>>

NextHeader == ReadHeaderV2 \/ ReadVersion \/ ReadSeen

NextUniq == UniqueStep \/ ParseConfig

NextConv ==
  ConvBegin \/ ConvBias \/ ConvBn \/ ConvKernel \/ ConvActivation \/ ConvBuild

NextSection ==
  \/ NextConv \/ MaxPool \/ AvgPool \/ Route \/ Reorg \/ Shortcut \/ Upsample
  \/ Yolo \/ Region \/ Skip \/ Unsupported

Next ==
  NextHeader \/ NextUniq \/ Setup \/ NextSection \/ CreateModel
    \/ CheckRemaining

Spec == Init /\ [][Next]_vars

\* the header of the weight file alone, over more version fields
SpecHeader ==
  InitWith({<<>>},
           {<<v2, h[1], h[2]>> : v2 \in BOOLEAN, h \in HeaderVersions},
           HeaderFileLens)
    /\ [][NextHeader]_vars

\* the state at line 130, the 16-byte header of a v2 file read
InitUniq ==
  /\ pc = "uniq"
  /\ err = "none"
  /\ yolo_v2 = TRUE /\ major = 0 /\ minor = 1
  /\ flen = 16 /\ pos = 16
  /\ weights_open = TRUE
  /\ header_bytes = 16
  /\ lines \in SeqsUpTo(ShortLines, MaxLines)
  /\ fin = 0
  /\ section_counters = <<>>
  /\ output_stream = <<>>
  /\ sections = <<>>
  /\ sec = 0
  /\ cur = NoCur
  /\ cfg_parser = <<>>
  /\ start_pos = 0
  /\ prev_layer = None
  /\ all_layers = <<>>
  /\ out_index = <<>>
  /\ count = 0
  /\ nodes = <<>>
  /\ yolo_tails = <<>>
  /\ anchors_file = "absent"
  /\ model_outputs = <<>>
  /\ remaining_weights = 0
  /\ warned = FALSE

\* unique_config_sections and the parse alone, over lines of other shapes
SpecUniq == InitUniq /\ [][NextUniq]_vars

(***************************************************************************)
(* Properties of the converter.                                            *)
(***************************************************************************)
\* the channel count of a tail: 3 for the network input
TailChannels(layer) == IF layer = InputLayer THEN 3 ELSE nodes[layer].ch

\* bias, batch-normalize vectors and kernel of a convolutional declaration,
\* in bytes
LayerBytes(filters, size, in_channels, batch_normalize) ==
  4 * filters + (IF batch_normalize THEN 12 * filters ELSE 0)
    + 4 * size * size * in_channels * filters

\* C1: once the reads of a Convolutional declaration are done, the cursor has
\* advanced from where the declaration started by 4*filters, plus
\* 12*filters iff batch-normalize is set, plus 4*size*size*in_channels*filters,
\* in_channels being the channels of the tail the declaration found.
C1_ConvBytes ==
  /\ pc \in {"conv_act", "conv_build"} =>
       pos - start_pos =
         LayerBytes(cur.filters, cur.size, TailChannels(prev_layer),
                    cur.batch_normalize)
  /\ (pc = "loop" /\ cur.kind = "convolutional") =>
       pos - start_pos =
         LayerBytes(cur.filters, cur.size, cur.in_channels,
                    cur.batch_normalize)

\* C1 witness: a batch-normalized declaration read after a layer of two
\* channels: 4 + 12 + 4*1*1*2*1 bytes
C1_Witness ==
  /\ pc = "conv_act" /\ cur.batch_normalize
  /\ prev_layer # InputLayer /\ TailChannels(prev_layer) = 2
  /\ pos - start_pos = 24

\* the name between the brackets of a header line
NameOf(line) ==
  LET close == CHOOSE p \in 2..Len(line) :
                 line[p] = "]" /\ \A q \in 2..(p - 1) : line[q] # "]"
  IN  SubSeq(line, 2, close - 1)

\* what follows the name in a header line
AfterName(line) == SubSeq(line, Len(NameOf(line)) + 2, Len(line))

IsHeaderLine(line) == line # <<>> /\ line[1] = "["

\* the number of headers named as line i before line i
Earlier(i) ==
  Cardinality({j \in 1..(i - 1) :
                 IsHeaderLine(lines[j]) /\ NameOf(lines[j]) = NameOf(lines[i])})

Decimal(n) == <<"0", "1", "2", "3", "4", "5", "6", "7", "8", "9">>[n + 1]

HeaderLines == SelectSeq(lines, IsHeaderLine)

\* C2: the k-th header named X is emitted as X_(k-1), in its place in the
\* file, every other line is emitted in its place as it is, and the parser
\* lists the emitted names in file order.
C2_UniqueSections ==
  /\ Len(output_stream) = fin
  /\ \A i \in 1..fin :
       output_stream[i] =
         IF IsHeaderLine(lines[i])
           THEN <<"[">> \o NameOf(lines[i]) \o <<"_", Decimal(Earlier(i))>>
                  \o AfterName(lines[i])
           ELSE lines[i]
  /\ pc = "setup" =>
       /\ Len(sections) = Len(HeaderLines)
       /\ \A k \in 1..Len(sections) :
            \E i \in 1..Len(lines) :
              /\ IsHeaderLine(lines[i])
              /\ Cardinality({j \in 1..i : IsHeaderLine(lines[j])}) = k
              /\ sections[k] =
                   NameOf(lines[i]) \o <<"_", Decimal(Earlier(i))>>

\* C2 witness: two headers named a around one named aa
C2_Witness ==
  /\ pc = "setup"
  /\ sections = << <<"a", "_", "0">>, <<"a", "a", "_", "0">>,
                   <<"a", "_", "1">> >>

\* major*10 + minor >= 2 over the integers, written without the product
AtLeastTwo(ma, mi) == ma >= -((mi - 2) \div 10)

Wrapped(ma, mi) ==
  IF ma \in -200000000..200000000 /\ mi \in -200000000..200000000
    THEN ma * 10 + mi
    ELSE VersionNumber(ma, mi)

UnknownActivation == "ValueError: Unknown activation function"

\* C4 as stated: when the unsupported activation is reported, no byte of the
\* layer has been read.
C4_Original == err = UnknownActivation => pos = start_pos

\* C4 amended: a Convolutional declaration whose activation is neither
\* linear nor leaky never gets past its activation check: conversion ends in
\* an error with no node built; the check comes after the reads, so when the
\* unsupported activation is reported the cursor has advanced by all the
\* bytes of the layer.
C4_ActivationAfterReads ==
  /\ (cur.kind = "convolutional" /\ cur.activation \notin {"linear", "leaky"})
       => pc \in {"conv_bias", "conv_bn", "conv_kernel", "conv_act", "error"}
  /\ err = UnknownActivation =>
       /\ pc = "error"
       /\ cur.activation \notin {"linear", "leaky"}
       /\ pos = start_pos + LayerBytes(cur.filters, cur.size,
                                       TailChannels(prev_layer),
                                       cur.batch_normalize)
       /\ \A i \in 1..Len(all_layers) : all_layers[i] <= Len(nodes)
       /\ \A n \in 1..Len(nodes) :
            \/ \E i \in 1..Len(all_layers) : all_layers[i] = n
            \/ \E m \in (n + 1)..Len(nodes) :
                 \E j \in 1..Len(nodes[m].inputs) : nodes[m].inputs[j] = n

\* C4 witness: sigmoid is reported with the 16 bytes of the layer read
C4_Witness ==
  /\ err = UnknownActivation /\ cur.activation = "sigmoid"
  /\ pos = start_pos + 16

\* C5: when the run is done, header bytes + 4*count + unread bytes is the
\* length of the file, so a file of just the header and the bytes the
\* declarations took leaves nothing unread; while the loop runs the cursor
\* is at header bytes + 4*count.
C5_ByteConservation ==
  /\ pc = "done" =>
       /\ header_bytes + 4 * count + remaining_weights = flen
       /\ (flen = header_bytes + 4 * count => remaining_weights = 0)
       /\ header_bytes \in {16, 20}
  /\ pc \in {"loop", "remaining"} => pos = header_bytes + 4 * count

\* C5 witness: a 20-byte header and one layer of 28 bytes fill the file
C5_Witness ==
  /\ pc = "done" /\ header_bytes = 20 /\ count = 7
  /\ flen = 48 /\ remaining_weights = 0

\* the bytes the read at pc asks for
Requested ==
  CASE pc = "conv_bias" -> 4 * cur.filters
    [] pc = "conv_bn" -> 12 * cur.filters
    [] pc = "conv_kernel" ->
         4 * cur.size * cur.size * TailChannels(prev_layer) * cur.filters
    [] OTHER -> 0

\* C6: a read of a Convolutional declaration that finds fewer bytes than it
\* asks for ends the conversion there with an error: nothing is counted, no
\* node is built, no entry appended, and no step follows an error, so no
\* later declaration is taken.
C6_ShortReadIsFatal ==
  [][ /\ pc # "error"
      /\ (pc \in {"conv_bias", "conv_bn", "conv_kernel"}
            /\ flen - pos < Requested)
           => /\ pc' = "error"
              /\ err' = "TypeError: buffer is too small"
              /\ UNCHANGED <<sec, count, nodes, all_layers, prev_layer>>
      /\ (pc \in {"conv_bias", "conv_bn", "conv_kernel"}
            /\ flen - pos >= Requested)
           => pc' # "error" /\ pos' = pos + Requested ]_vars

\* C6 witness: the batch-normalize read failed after the bias was read, with
\* a declaration still to come
C6_Witness ==
  /\ pc = "error" /\ err = "TypeError: buffer is too small"
  /\ cur.kind = "convolutional" /\ cur.batch_normalize
  /\ "bias_at" \in DOMAIN cur /\ "bn_at" \notin DOMAIN cur
  /\ sec < Len(sections)
  /\ nodes = <<>>

\* the outputs Model is given are tensors of the list
OutputsAreTensors ==
  IF yolo_v2 THEN all_layers # <<>> /\ all_layers[Len(all_layers)] # None
  ELSE IF out_index = <<>>
    THEN all_layers # <<>> /\ all_layers[Len(all_layers)] # None
    ELSE \A j \in 1..Len(out_index) :
           /\ out_index[j] >= 0 /\ out_index[j] < Len(all_layers)
           /\ all_layers[out_index[j] + 1] # None

\* C7: with every declaration processed, a model whose outputs are tensors
\* is created whatever is left of the stream; then r unread bytes end the
\* run as done, without error, the model kept, with the warning iff r > 0,
\* the amount reported being r bytes, r/4 scalars.
C7_TrailingBytesWarn ==
  [][ /\ (pc = "loop" /\ sec = Len(sections) /\ OutputsAreTensors)
           => pc' = "remaining" /\ Len(model_outputs') > 0
      /\ pc = "remaining"
           => /\ pc' = "done" /\ err' = "none"
              /\ model_outputs' = model_outputs /\ Len(model_outputs) > 0
              /\ remaining_weights' = flen - pos
              /\ warned' = (flen - pos > 0)
              /\ ~warned ]_vars

\* C7 witness: done with two bytes unread, warned
C7_Witness ==
  /\ pc = "done" /\ err = "none" /\ warned
  /\ remaining_weights = 2 /\ count > 0 /\ Len(model_outputs) = 1

\* the entry a Route index denotes in a list of length L: L - k for -k
Denoted(list, i) == IF i < 0 THEN list[(Len(list) - (-i)) + 1] ELSE list[i + 1]

\* C8: a processed Route with the single index -k, the list being of length
\* L, appends the entry at index L-k and makes it the tail, with no new
\* node; a processed Route with several indices creates one Concatenate node
\* whose inputs are the denoted entries in listed order, appends it and makes
\* it the tail.
C8_RouteResolution ==
  [][ (pc = "loop" /\ pc' = "loop" /\ sec' = sec + 1 /\ cur'.kind = "route")
        => LET ids == cur'.ids
               L == Len(all_layers)
           IN  IF Len(ids) = 1
                 THEN /\ ids[1] < 0 => (-ids[1] >= 1 /\ -ids[1] <= L)
                      /\ prev_layer' = Denoted(all_layers, ids[1])
                      /\ all_layers' = Append(all_layers, prev_layer')
                      /\ nodes' = nodes
                 ELSE /\ Len(nodes') = Len(nodes) + 1
                      /\ SubSeq(nodes', 1, Len(nodes)) = nodes
                      /\ nodes'[Len(nodes')].op = "Concatenate"
                      /\ nodes'[Len(nodes')].inputs =
                           [j \in 1..Len(ids) |-> Denoted(all_layers, ids[j])]
                      /\ prev_layer' = Len(nodes')
                      /\ all_layers' = Append(all_layers, Len(nodes')) ]_vars

\* C8 witness: Route -1,-2 has concatenated the last layer, then the one
\* before it
C8_Witness ==
  /\ pc = "loop" /\ cur.kind = "route" /\ cur.ids = <<-1, -2>>
  /\ Len(all_layers) = 3
  /\ nodes[Len(nodes)].op = "Concatenate"
  /\ nodes[Len(nodes)].inputs = <<all_layers[2], all_layers[1]>>
  /\ all_layers[2] > all_layers[1] /\ all_layers[1] > 0

\* a step that has processed a section of kind k
Processed(k) ==
  pc = "loop" /\ pc' = "loop" /\ sec' = sec + 1 /\ cur'.kind = k

\* C9 as stated: a processed Yolo or Region declaration records the index of
\* the tail, appends one placeholder and reads nothing.
C9_Original ==
  [][ (Processed("yolo") \/ Processed("region"))
        => /\ out_index' = Append(out_index, Len(all_layers) - 1)
           /\ all_layers' = Append(all_layers, None)
           /\ pos' = pos ]_vars

\* C9 amended: a Yolo declaration is processed in the multi-output format
\* only; it appends len(all_layers)-1 to the outputs, which is the index of
\* the tail when the list is not empty, appends one placeholder, which
\* becomes the tail, and creates no node; a processed Region declaration
\* records no output and appends no entry; neither reads a byte.
C9_YoloMarker ==
  [][ /\ Processed("yolo")
           => /\ ~yolo_v2
              /\ out_index' = Append(out_index, Len(all_layers) - 1)
              /\ all_layers # <<>> => all_layers[Len(all_layers)] = prev_layer
              /\ all_layers' = Append(all_layers, None)
              /\ prev_layer' = None
              /\ nodes' = nodes
              /\ pos' = pos /\ count' = count
      /\ Processed("region")
           => UNCHANGED <<out_index, all_layers, prev_layer, nodes, pos,
                          count>> ]_vars

\* C9 witness: a Yolo after one layer has recorded index 0
C9_Witness ==
  /\ pc = "loop" /\ cur.kind = "yolo"
  /\ out_index = <<0>> /\ Len(all_layers) = 2
  /\ all_layers[1] # None /\ all_layers[2] = None /\ prev_layer = None

\* C10: once the model is created, its outputs are: in the v2 format the
\* final tail; in the multi-output format the tails recorded at the Yolo
\* markers, in the order recorded, or the final tail if none was recorded.
C10_DeclaredOutputs ==
  pc \in {"remaining", "done"} =>
    /\ yolo_v2 => model_outputs = <<prev_layer>>
    /\ (~yolo_v2 /\ yolo_tails # <<>>) => model_outputs = yolo_tails
    /\ (~yolo_v2 /\ yolo_tails = <<>>) => model_outputs = <<prev_layer>>
    /\ \A j \in 1..Len(model_outputs) : model_outputs[j] # None

\* C10 witness: two markers, two different tails, in the order recorded
C10_Witness ==
  /\ pc = "done" /\ ~yolo_v2
  /\ Len(yolo_tails) = 2 /\ yolo_tails[1] < yolo_tails[2]
  /\ model_outputs = yolo_tails

\* the name a section had in the file: the parsed name less its _n
BaseName(section) == SubSeq(section, 1, Len(section) - 2)

SupportedNames == {convolutional, maxpool, avgpool, route, reorg, shortcut,
                   upsample, yolo, region, net, cost, softmax}

UnsupportedSection == "ValueError: Unsupported section header type"

\* C11 as stated: once the loop has taken a section whose name in the file
\* is none of the twelve supported names, conversion has ended in the
\* unsupported-section error; the section is neither skipped nor built.
C11_Original ==
  (sec > 0 /\ BaseName(sections[sec]) \notin SupportedNames)
    => pc = "error" /\ err = UnsupportedSection

\* C12 as stated: no run ends, done or in error, with the weight file open.
C12_Original == pc \in {"done", "error"} => ~weights_open

\* the Conv2D node of the convolutional section just built: the last node,
\* or the one before a LeakyReLU and a BatchNormalization
ConvNode(c) ==
  Len(nodes) - (IF c.activation = "leaky" THEN 1 ELSE 0)
             - (IF c.batch_normalize THEN 1 ELSE 0)

\* a convolutional section has just been built
ConvBuilt == pc = "loop" /\ cur.kind = "convolutional"

\* C13: the padding mode of a Convolutional declaration is same exactly
\* when pad = 1 in the v2 format, exactly when pad = 1 and stride = 1 in the
\* other format, and valid otherwise; the convolution node is built with it.
C13_PaddingMode ==
  /\ cur.kind = "convolutional" =>
       /\ cur.padding \in {"same", "valid"}
       /\ cur.padding = "same" <=>
            IF yolo_v2 THEN cur.pad = 1 ELSE cur.pad = 1 /\ cur.stride = 1
  /\ ConvBuilt =>
       /\ nodes[ConvNode(cur)].op = "Conv2D"
       /\ nodes[ConvNode(cur)].padding = cur.padding

\* C13 witness: pad = 1 with stride = 2 outside the v2 format: built valid
C13_Witness ==
  /\ ConvBuilt /\ ~yolo_v2 /\ cur.pad = 1 /\ cur.stride = 2
  /\ nodes[ConvNode(cur)].op = "Conv2D"
  /\ nodes[ConvNode(cur)].padding = "valid"

\* the loop takes a section in this step
Taken(k) == pc = "loop" /\ sec' = sec + 1 /\ cur'.kind = k

\* the step ends the conversion with error e and has no other effect on the
\* graph, the list, the tail or the stream
FatalBeforeEffect(e) ==
  /\ pc' = "error" /\ err' = e
  /\ UNCHANGED <<nodes, all_layers, prev_layer, out_index, pos, count>>

\* C14: a Reorg or Upsample declaration with stride # 2, a Shortcut
\* declaration with activation # linear and an AvgPool declaration with a
\* parameter each end the conversion in an error in the step that takes
\* them, with no node created, no entry appended and the tail unchanged;
\* nothing follows the error.
C14_ChecksPrecedeEffects ==
  [][ /\ pc # "error"
      /\ (Taken("reorg") /\ cur'.block_size # 2) =>
           FatalBeforeEffect("AssertionError: Only reorg with stride 2 supported.")
      /\ (Taken("upsample") /\ cur'.stride # 2) =>
           FatalBeforeEffect("AssertionError: Only stride=2 supported.")
      /\ (Taken("shortcut") /\ cur'.activation # "linear") =>
           FatalBeforeEffect("AssertionError: Only linear activation supported.")
      /\ (Taken("avgpool") /\ cur'.has_items) =>
           FatalBeforeEffect("ValueError: avgpool with params unsupported")
    ]_vars

\* C14 witness: a Shortcut with activation leaky, from a layer it could have
\* been added to, has ended the conversion with the two layers built before
C14_Witness ==
  /\ pc = "error" /\ err = "AssertionError: Only linear activation supported."
  /\ cur.kind = "shortcut" /\ cur.activation = "leaky" /\ cur.index = -2
  /\ Len(all_layers) = 2 /\ Len(nodes) = 2
  /\ prev_layer = all_layers[2] /\ all_layers[1] # None
  /\ nodes[all_layers[1]].ch = nodes[prev_layer].ch

\* the config of the end-to-end scenario: the sections and their lines
ScenarioLines ==
  <<HeaderLine(net), HeaderLine(convolutional), HeaderLine(avgpool)>>

ScenarioItems ==
  << [kind |-> "skip"],
     [filters |-> 2, size |-> 3, stride |-> 1, pad |-> 1,
      activation |-> "linear", batch_normalize |-> FALSE],
     [kind |-> "avgpool", has_items |-> FALSE] >>

\* the run is the scenario's: its config, as far as it has been read, and a
\* weight file of the header, 8 bias bytes and 216 kernel bytes
InScenario ==
  /\ pc \notin {"header", "seen"}
  /\ lines = ScenarioLines
  /\ flen = header_bytes + 8 + 216
  /\ \A k \in 1..Len(cfg_parser) : cfg_parser[k] = ScenarioItems[k]

ZeroByteKinds == {"maxpool", "avgpool", "route", "reorg", "shortcut",
                  "upsample", "yolo", "region", "skip"}

\* C16: the step that takes a MaxPool, AvgPool, Route, Reorg, Shortcut,
\* Upsample, Yolo, Region, Net, Cost or Softmax declaration, whether it
\* builds it or fails, leaves the cursor and count as they were, and no
\* step of the run moves the cursor back.
C16_ZeroByteSections ==
  [][ /\ pos' >= pos
      /\ pos' <= flen
      /\ \A k \in ZeroByteKinds : Taken(k) => pos' = pos /\ count' = count
    ]_vars

\* C16 witness: a MaxPool has been built after a Convolutional that moved
\* the cursor: the cursor is where the MaxPool found it
C16_Witness ==
  /\ pc = "loop" /\ cur.kind = "maxpool"
  /\ pos = start_pos /\ pos > header_bytes /\ count > 0
  /\ Len(nodes) >= 2 /\ nodes[Len(nodes)].op = "MaxPooling2D"

\* the kinds of section, other than Convolutional, that append a layer
OneEntryKinds == {"maxpool", "avgpool", "route", "reorg", "shortcut",
                  "upsample"}

\* C17: every step leaves the entries of the list as they are and in place,
\* and adds at most one at the end; a processed MaxPool, AvgPool, Route,
\* Reorg, Shortcut or Upsample declaration adds exactly one, and so does the
\* step that builds a Convolutional declaration, whose earlier steps add
\* none; a processed single-index Route adds the entry it denotes and
\* creates no node; a Net, Cost or Softmax declaration adds none.
C17_ListGrowth ==
  [][ /\ Len(all_layers') \in {Len(all_layers), Len(all_layers) + 1}
      /\ SubSeq(all_layers', 1, Len(all_layers)) = all_layers
      /\ \A k \in OneEntryKinds :
           Processed(k) => Len(all_layers') = Len(all_layers) + 1
      /\ (pc = "conv_build" /\ pc' = "loop")
           => Len(all_layers') = Len(all_layers) + 1
      /\ (Taken("convolutional")
            \/ pc \in {"conv_bias", "conv_bn", "conv_kernel", "conv_act"})
           => all_layers' = all_layers
      /\ (Processed("route") /\ Len(cur'.ids) = 1)
           => /\ nodes' = nodes
              /\ \E i \in 1..Len(all_layers) :
                   all_layers'[Len(all_layers')] = all_layers[i]
      /\ Processed("skip") => all_layers' = all_layers
    ]_vars

\* C17 witness: after two Convolutional declarations a Route -2 has added
\* the first layer again: three entries, two layers
C17_Witness ==
  /\ pc = "loop" /\ cur.kind = "route" /\ cur.ids = <<-2>>
  /\ Len(all_layers) = 3 /\ all_layers[3] = all_layers[1]
  /\ all_layers[2] # all_layers[1] /\ prev_layer = all_layers[1]
  /\ Len(nodes) = all_layers[2]

\* the kinds of node a Convolutional declaration is to give, in order
ExpectedOps(c) ==
  (IF c.stride > 1 THEN <<"ZeroPadding2D">> ELSE <<>>)
    \o <<"Conv2D">>
    \o (IF c.batch_normalize THEN <<"BatchNormalization">> ELSE <<>>)
    \o (IF c.activation = "leaky" THEN <<"LeakyReLU">> ELSE <<>>)

\* C18: the step that builds a Convolutional declaration adds, after the
\* nodes there are, a zero-padding node (1 row on top, 1 column on the left)
\* iff stride > 1, the convolution, a normalization iff batch-normalize, a
\* leaky rectifier of slope 0.1 iff the activation is leaky, and nothing
\* else; the first is applied to the tail, each next one to the node before
\* it; the last one is the new tail and the one entry appended to the list.
C18_NodeOrder ==
  [][ (pc = "conv_build" /\ pc' = "loop") =>
        LET n0 == Len(nodes)
            new == SubSeq(nodes', n0 + 1, Len(nodes'))
        IN  /\ SubSeq(nodes', 1, n0) = nodes
            /\ [k \in 1..Len(new) |-> new[k].op] = ExpectedOps(cur)
            /\ new[1].inputs = <<prev_layer>>
            /\ \A k \in 2..Len(new) : new[k].inputs = <<n0 + k - 1>>
            /\ \A k \in 1..Len(new) :
                 /\ new[k].op = "ZeroPadding2D" =>
                      new[k].padding = <<<<1, 0>>, <<1, 0>>>>
                 /\ new[k].op = "LeakyReLU" => new[k].alpha = "0.1"
            /\ prev_layer' = Len(nodes')
            /\ all_layers' = Append(all_layers, Len(nodes'))
    ]_vars

\* C18 witness: stride 2, batch-normalize and leaky have given four nodes
C18_Witness ==
  /\ ConvBuilt /\ cur.stride = 2 /\ cur.batch_normalize
  /\ cur.activation = "leaky"
  /\ Len(nodes) = 4 /\ prev_layer = 4 /\ all_layers[Len(all_layers)] = 4
  /\ nodes[1].op = "ZeroPadding2D" /\ nodes[2].op = "Conv2D"
  /\ nodes[3].op = "BatchNormalization" /\ nodes[4].op = "LeakyReLU"
  /\ nodes[4].inputs = <<3>> /\ nodes[3].inputs = <<2>>
  /\ nodes[2].inputs = <<1>> /\ nodes[1].inputs = <<InputLayer>>

\* array w is the n float32 scalars read from place `at` on, in file order
IsVectorAt(w, n, at) ==
  /\ w.shape = <<n>>
  /\ \A k \in 0..(n - 1) : Item(w, <<k>>) = at + 4 * k

\* the three reads of the current Convolutional declaration are done
ConvRead == pc \in {"conv_act", "conv_build"} \/ ConvBuilt

\* C19: in a Convolutional declaration of f filters the bias is the first f
\* scalars read; with batch-normalize the next 3f are the scale, the running
\* mean and the running variance, in that order; the kernel is read last.
\* With batch-normalize the convolution node is given the kernel alone and
\* uses no bias, and the normalization node is given (scale, bias, mean,
\* variance); without it the convolution node is given (kernel, bias).
C19_ReadOrder ==
  /\ ConvRead =>
       /\ cur.bias_at = start_pos
       /\ cur.batch_normalize => cur.bn_at = start_pos + 4 * cur.filters
       /\ cur.kernel_at =
            start_pos + 4 * cur.filters
              + (IF cur.batch_normalize THEN 12 * cur.filters ELSE 0)
       /\ pos = cur.kernel_at + 4 * cur.weights_size
  /\ ConvBuilt =>
       LET f == cur.filters
           conv == nodes[ConvNode(cur)]
           bn == nodes[ConvNode(cur) + 1]
       IN  /\ conv.op = "Conv2D"
           /\ conv.weights[1].at = cur.kernel_at
           /\ Product(conv.weights[1].shape) = cur.weights_size
           /\ IF cur.batch_normalize
                THEN /\ Len(conv.weights) = 1 /\ ~conv.use_bias
                     /\ bn.op = "BatchNormalization"
                     /\ Len(bn.weights) = 4
                     /\ IsVectorAt(bn.weights[1], f, start_pos + 4 * f)
                     /\ IsVectorAt(bn.weights[2], f, start_pos)
                     /\ IsVectorAt(bn.weights[3], f, start_pos + 8 * f)
                     /\ IsVectorAt(bn.weights[4], f, start_pos + 12 * f)
                ELSE /\ Len(conv.weights) = 2 /\ conv.use_bias
                     /\ IsVectorAt(conv.weights[2], f, start_pos)
                     /\ \A n \in ConvNode(cur)..Len(nodes) :
                          nodes[n].op # "BatchNormalization"

\* C19 witness: a batch-normalized declaration of two filters built after a
\* first layer: the normalization node's shift is the bias read first, its
\* scale the vector read next, and the kernel follows the variance
C19_Witness ==
  /\ ConvBuilt /\ cur.batch_normalize /\ cur.filters = 2
  /\ start_pos > header_bytes
  /\ nodes[ConvNode(cur) + 1].weights[2].at = start_pos
  /\ nodes[ConvNode(cur) + 1].weights[1].at = start_pos + 8
  /\ nodes[ConvNode(cur) + 1].weights[3].at = start_pos + 16
  /\ nodes[ConvNode(cur) + 1].weights[4].at = start_pos + 24
  /\ nodes[ConvNode(cur)].weights[1].at = start_pos + 32

\* the scalar offset of (o, i, h, w) in a kernel block stored in the order
\* (out, in, height, width)
DiskOffset(o, i, h, w, in_channels, size) ==
  ((o * in_channels + i) * size + h) * size + w

\* C20: the kernel given to the convolution node of a declaration of kernel
\* size s on a tail of c channels with f filters has shape (s, s, c, f), and
\* its element (h, w, i, o) is the scalar at offset ((o*c + i)*s + h)*s + w
\* of the kernel block read from the file; transposed back with axes
\* (3, 2, 0, 1) it is the array as it was read: shape (f, c, s, s), element
\* (o, i, h, w) at that same offset.
C20_KernelLayout ==
  ConvBuilt =>
    LET kernel == nodes[ConvNode(cur)].weights[1]
        s == cur.size
        c == cur.in_channels
        f == cur.filters
        back == Transpose(kernel, <<3, 2, 0, 1>>)
    IN  /\ cur.kernel_at = pos - 4 * (s * s * c * f)
        /\ kernel.shape = <<s, s, c, f>>
        /\ back.shape = <<f, c, s, s>>
        /\ back = NdArray(<<f, c, s, s>>, cur.kernel_at)
        /\ \A h \in 0..(s - 1), w \in 0..(s - 1), i \in 0..(c - 1),
              o \in 0..(f - 1) :
             /\ Item(kernel, <<h, w, i, o>>) =
                  cur.kernel_at + 4 * DiskOffset(o, i, h, w, c, s)
             /\ Item(back, <<o, i, h, w>>) = Item(kernel, <<h, w, i, o>>)

\* C20 witness: a 3x3 kernel on the three channels of the input with two
\* filters: element (2, 1, 0, 1) is scalar ((1*3 + 0)*3 + 2)*3 + 1 = 34 of
\* the block
C20_Witness ==
  /\ ConvBuilt /\ cur.size = 3 /\ cur.in_channels = 3 /\ cur.filters = 2
  /\ nodes[ConvNode(cur)].weights[1].shape = <<3, 3, 3, 2>>
  /\ Item(nodes[ConvNode(cur)].weights[1], <<2, 1, 0, 1>>)
       = cur.kernel_at + 4 * 34
  /\ cur.kernel_at = header_bytes + 8

\* a line that gives a section a key and a value: neither blank, nor a
\* comment, nor a header
IsOptionLine(line) ==
  LET v == Strip(line, Whitespace)
  IN  v # <<>> /\ v[1] \notin {"#", ";", "["}

\* the key and the value of an option line: the text on either side of its
\* first = or :, without the blanks around it
KeyValue(line) ==
  LET v == Strip(line, Whitespace)
      d == CHOOSE p \in 1..Len(v) :
             v[p] \in {"=", ":"} /\ \A q \in 1..(p - 1) : v[q] \notin {"=", ":"}
  IN  <<Strip(SubSeq(v, 1, d - 1), Whitespace),
        Strip(SubSeq(v, d + 1, Len(v)), Whitespace)>>

\* the place in the original file of its k-th header line
HeaderAt(k) ==
  CHOOSE i \in 1..Len(lines) :
    /\ IsHeaderLine(lines[i])
    /\ Cardinality({j \in 1..i : IsHeaderLine(lines[j])}) = k

\* the keys and values of the k-th section of the original file: those of
\* the option lines between its header and the next
OriginalItems(k) ==
  LET end == IF k < Len(HeaderLines) THEN HeaderAt(k + 1) - 1 ELSE Len(lines)
      body == SelectSeq(SubSeq(lines, HeaderAt(k) + 1, end), IsOptionLine)
  IN  [j \in 1..Len(body) |-> KeyValue(body[j])]

\* C21: a line that is not a header is written as it is, in its place; a
\* header line is written in its place with two characters more, the same up
\* to the end of its name and the same after it; and when the written text
\* parses, it has as many sections as the original has headers, the k-th
\* holding exactly the keys and values of the original's k-th section, in
\* order.
C21_ContentPreserved ==
  /\ Len(output_stream) = fin
  /\ \A i \in 1..fin :
       LET line == lines[i]
           out == output_stream[i]
       IN  IF IsHeaderLine(line)
             THEN LET n == Len(NameOf(line))
                  IN  /\ Len(out) = Len(line) + 2
                      /\ SubSeq(out, 1, n + 1) = SubSeq(line, 1, n + 1)
                      /\ SubSeq(out, n + 4, Len(out)) = AfterName(line)
             ELSE out = line
  /\ pc = "setup" =>
       LET r == ReadFile(output_stream, <<>>)
       IN  /\ r.error = "none" /\ r.sections = sections
           /\ Len(r.items) = Len(HeaderLines)
           /\ \A k \in 1..Len(r.items) : r.items[k] = OriginalItems(k)

\* C21 witness: two sections named a, the first with the line "b =a": read
\* back as a_0 with b = a and a_1 with nothing
C21_Witness ==
  /\ pc = "setup"
  /\ lines = <<HeaderLine(<<"a">>), <<"b", " ", "=", "a", "\n">>,
               HeaderLine(<<"a">>)>>
  /\ output_stream[2] = lines[2]
  /\ sections = << <<"a", "_", "0">>, <<"a", "_", "1">> >>
  /\ ReadFile(output_stream, <<>>).items = << << <<<<"b">>, <<"a">>>> >>, <<>> >>

\* every section is processed and the model is about to be created
AtModelCreation == pc = "loop" /\ sec = Len(sections)

\* C22 as stated: in the multi-output format, when the model is about to be
\* created every recorded output index denotes an entry of the list that is
\* a tensor, not a placeholder.
C22_Original ==
  (AtModelCreation /\ ~yolo_v2) =>
    \A j \in 1..Len(out_index) :
      /\ InRange(all_layers, out_index[j])
      /\ PyIndex(all_layers, out_index[j]) # None

\* the sections taken so far that carry an anchor list: Yolo and Region
WithAnchors ==
  {k \in 1..Len(cfg_parser) : "anchors" \in DOMAIN cfg_parser[k]}

\* C23: there is one anchors file; it is absent until a Yolo or Region
\* declaration is taken, and from then on it holds the anchor list of the
\* last Yolo or Region declaration taken, and nothing of the earlier ones.
C23_AnchorsFile ==
  /\ WithAnchors = {} => anchors_file = "absent"
  /\ WithAnchors # {} =>
       LET last == CHOOSE k \in WithAnchors : \A j \in WithAnchors : j <= k
       IN  /\ cfg_parser[last].kind \in {"yolo", "region"}
           /\ anchors_file = cfg_parser[last].anchors

\* C23 witness: a Region with one anchor list, then a Yolo with another: the
\* file holds the Yolo's
C23_Witness ==
  /\ Len(cfg_parser) = 2
  /\ cfg_parser[1] = [kind |-> "region", anchors |-> "10,13"]
  /\ cfg_parser[2] = [kind |-> "yolo", anchors |-> "116,90"]
  /\ anchors_file = "116,90"
  /\ pc = "loop" /\ ~yolo_v2

====
